---- MODULE Spec2Model ----
(***************************************************************************)
(* Model of the interpreter overlay (cmd/interpreter/main.go): the ebiten  *)
(* render loop (App.Update, App.Draw), the pipeline cycles that Update     *)
(* launches as goroutines (capture, recognition, confidence filter,        *)
(* last-text cache, translation, publish of a.subs) and the recognition    *)
(* filter filterTextByConfidence.                                          *)
(*                                                                         *)
(* A Go string is modelled as a sequence of one-character strings, "" as   *)
(* <<>>.  A float32 confidence in [0.0, 1.0] is modelled in hundredths.    *)
(* Every access to a field of App shared between the render loop and the   *)
(* goroutines is a step of its own, so that every interleaving the         *)
(* unsynchronised code allows is explored.                                 *)
(***************************************************************************)
EXTENDS Integers, Sequences, FiniteSets, TLC

(***************************************************************************)
(* Bounds of the model.                                                    *)
(***************************************************************************)
MaxCycles == 3
MaxTime == 6
MaxPos == 1
MaxTranslations == 1
MaxWords == 3

(***************************************************************************)
(* Strings.                                                                *)
(***************************************************************************)
EmptyString == <<>>

(***************************************************************************)
(* Recognition results (visionpb.TextAnnotation): pages, blocks,           *)
(* paragraphs, words; a word carries a confidence and its symbols, a       *)
(* symbol a confidence of its own and its text.                            *)
(***************************************************************************)
Symbol(confidence, t) == [Confidence |-> confidence, Text |-> t]

\* A word of one-character symbols, each as confident as the word.
Word(confidence, chars) ==
    [Confidence |-> confidence,
     Symbols |-> [i \in 1..Len(chars) |-> Symbol(confidence, <<chars[i]>>)]]

Paragraph(words) == [Words |-> words]

Block(paragraphs) == [Paragraphs |-> paragraphs]

Page(blocks) == [Blocks |-> blocks]

TextAnnotation(pages) == [Pages |-> pages]

(***************************************************************************)
(* filterTextByConfidence: the five nested range loops over pages, blocks, *)
(* paragraphs, words and symbols, writing into one bytes.Buffer.           *)
(***************************************************************************)
RECURSIVE WriteSymbols(_, _)
WriteSymbols(buffer, symbols) ==
    IF symbols = <<>> THEN buffer
    ELSE WriteSymbols(buffer \o Head(symbols).Text, Tail(symbols))

\* Mutant: the comparison is inverted, the words above the threshold are skipped.
RECURSIVE FilterWordsInverted(_, _, _)
FilterWordsInverted(buffer, words, threshold) ==
    IF words = <<>> THEN buffer
    ELSE FilterWordsInverted(
             IF Head(words).Confidence > threshold
             THEN buffer
             ELSE WriteSymbols(buffer, Head(words).Symbols),
             Tail(words), threshold)

\* Mutant: a word whose confidence equals the threshold is skipped too.
RECURSIVE FilterWordsStrict(_, _, _)
FilterWordsStrict(buffer, words, threshold) ==
    IF words = <<>> THEN buffer
    ELSE FilterWordsStrict(
             IF Head(words).Confidence <= threshold
             THEN buffer
             ELSE WriteSymbols(buffer, Head(words).Symbols),
             Tail(words), threshold)

RECURSIVE FilterWords(_, _, _)
FilterWords(buffer, words, threshold) ==
    IF words = <<>> THEN buffer
    ELSE FilterWords(
             IF Head(words).Confidence < threshold
             THEN buffer
             ELSE WriteSymbols(buffer, Head(words).Symbols),
             Tail(words), threshold)

RECURSIVE FilterParagraphs(_, _, _)
FilterParagraphs(buffer, paragraphs, threshold) ==
    IF paragraphs = <<>> THEN buffer
    ELSE FilterParagraphs(FilterWords(buffer, Head(paragraphs).Words, threshold),
                          Tail(paragraphs), threshold)

RECURSIVE FilterBlocks(_, _, _)
FilterBlocks(buffer, blocks, threshold) ==
    IF blocks = <<>> THEN buffer
    ELSE FilterBlocks(FilterParagraphs(buffer, Head(blocks).Paragraphs, threshold),
                      Tail(blocks), threshold)

RECURSIVE FilterPages(_, _, _)
FilterPages(buffer, pages, threshold) ==
    IF pages = <<>> THEN buffer
    ELSE FilterPages(FilterBlocks(buffer, Head(pages).Blocks, threshold),
                     Tail(pages), threshold)

filterTextByConfidence(annotation, threshold) ==
    FilterPages(EmptyString, annotation.Pages, threshold)

(***************************************************************************)
(* The external collaborators: what a call can return.                     *)
(***************************************************************************)
\* Three words, the middle one of low confidence.
AnnotationA ==
    TextAnnotation(<<Page(<<Block(<<Paragraph(<<
        Word(95, <<"a", "b", "c", "d", "e", "f", "g", "h", "i">>),
        Word(40, <<"x">>),
        Word(99, <<"j">>)>>)>>)>>)>>)

\* The same text with its last character read differently, over two blocks.
AnnotationB ==
    TextAnnotation(<<Page(<<
        Block(<<Paragraph(<<Word(95, <<"a", "b", "c", "d", "e", "f", "g", "h", "i">>)>>)>>),
        Block(<<Paragraph(<<Word(99, <<"k">>)>>)>>)>>)>>)

\* Nothing but low confidence words.
AnnotationLow ==
    TextAnnotation(<<Page(<<Block(<<Paragraph(<<Word(40, <<"x">>)>>)>>)>>)>>)

Annotations == {AnnotationA, AnnotationB, AnnotationLow}

\* captured.CaptureWindowByTitle: an image or an error.
CaptureReplies == {"image", "error"}

\* jpeg.Encode, vision.NewImageFromReader and DetectDocumentText: an error,
\* a nil annotation or an annotation.
RecognizerReplies ==
    {[kind |-> "error", annotation |-> TextAnnotation(<<>>)],
     [kind |-> "nil", annotation |-> TextAnnotation(<<>>)]}
    \cup {[kind |-> "annotation", annotation |-> a] : a \in Annotations}

\* Translator.Translate: an error or a translation; the empty translation is
\* the reply "no translation in the response" of Google.Translate and
\* DeepL.Translate.
Translation(n) == [i \in 1..(n + 1) |-> "t"]

Translations == {Translation(n) : n \in 1..MaxTranslations} \cup {EmptyString}

TranslatorReplies ==
    {[err |-> TRUE, translation |-> EmptyString]}
    \cup {[err |-> FALSE, translation |-> t] : t \in Translations}

\* os.Create and jpeg.Encode of the debug screenshot.
FileReplies == {"ok", "error"}

(***************************************************************************)
(* App.annotate: (text, err) for one reply of the recognizer.              *)
(***************************************************************************)
\* Mutant: no check of a nil annotation; reading its Pages fails.
annotateWithoutNilCheck(reply, threshold) ==
    IF reply.kind \in {"error", "nil"} THEN [text |-> EmptyString, err |-> TRUE]
    ELSE [text |-> filterTextByConfidence(reply.annotation, threshold),
          err |-> FALSE]

annotate(reply, threshold) ==
    IF reply.kind = "error" THEN [text |-> EmptyString, err |-> TRUE]
    ELSE IF reply.kind = "nil" THEN [text |-> EmptyString, err |-> FALSE]
    ELSE [text |-> filterTextByConfidence(reply.annotation, threshold),
          err |-> FALSE]

(***************************************************************************)
(* Configurations the program is started with.                             *)
(***************************************************************************)
RefreshRates == {1}

ConfidenceThresholds == {60}

\* ebiten.CursorPosition: the pointer, relative to the window.
Cursors == {<<0, 0>>, <<1, 1>>}

\* The zero time.Time of a.lastUpdate, and the clock when the loop starts.
ZeroTime == 0
StartTime == 2

(***************************************************************************)
(* State.                                                                  *)
(***************************************************************************)
VARIABLES
    running,             \* the process has not exited
    now,                 \* the wall clock (time.Now)
    refreshRate,         \* a.refreshRate
    confidenceThreshold, \* a.confidenceThreshold
    debug,               \* a.debug
    lastUpdate,          \* a.lastUpdate
    lastText,            \* a.lastText
    subs,                \* a.subs
    windowPosition,      \* ebiten.WindowPosition
    cycles,              \* the goroutines started by Update, in start order
    drawPc,              \* where Draw stands: "idle" or "text"
    drawBound,           \* the a.subs that Draw measured for its rectangle
    frame,               \* the last frame drawn: rectangle and text
    cached,              \* history: the translation obtained for lastText
    call,                \* a function applied on its own: its arguments
    result               \* and what it returned

vars == <<running, now, refreshRate, confidenceThreshold, debug, lastUpdate,
          lastText, subs, windowPosition, cycles, drawPc, drawBound, frame,
          cached, call, result>>

harness == <<call, result>>

config == <<refreshRate, confidenceThreshold, debug>>

render == <<drawPc, drawBound, frame>>

CycleIds == 1..MaxCycles

Started == 1..Len(cycles)

\* The goroutines that have not returned.
InFlight == {c \in Started : cycles[c].pc \notin {"done", "fatal"}}

\* Mutant: the capture is made by the tick, before the goroutine is started.
NewCycleAfterCapture ==
    [pc |-> IF debug THEN "debug" ELSE "annotate", text |-> EmptyString,
     translation |-> EmptyString, called |-> FALSE, failed |-> "none",
     file |-> ZeroTime, subs0 |-> subs, lastText0 |-> lastText]

\* A goroutine as the go statement of Update creates it.
NewCycle ==
    [pc |-> "screenshot", text |-> EmptyString, translation |-> EmptyString,
     called |-> FALSE, failed |-> "none", file |-> ZeroTime,
     subs0 |-> subs, lastText0 |-> lastText]

NoCall == [fn |-> "none"]

NoResult == [fn |-> "none"]

\* The App that main constructs, when ebiten.RunGame enters the loop.
ProgramInit ==
    /\ running = TRUE
    /\ now = StartTime
    /\ refreshRate \in RefreshRates
    /\ confidenceThreshold \in ConfidenceThresholds
    /\ debug \in BOOLEAN
    /\ lastUpdate = ZeroTime
    /\ lastText = EmptyString
    /\ subs = EmptyString
    /\ windowPosition = <<0, 0>>
    /\ cycles = <<>>
    /\ drawPc = "idle"
    /\ drawBound = EmptyString
    /\ frame = [bound |-> EmptyString, text |-> EmptyString]
    /\ cached = EmptyString

Init ==
    /\ ProgramInit
    /\ call = NoCall
    /\ result = NoResult

(***************************************************************************)
(* The clock.                                                              *)
(***************************************************************************)
AdvanceTime ==
    /\ running
    /\ now < MaxTime
    /\ now' = now + 1
    /\ UNCHANGED <<harness, running, config, lastUpdate, lastText, subs, windowPosition,
                   cycles, render, cached>>

(***************************************************************************)
(* App.Update: the move window handler, the due check and the go statement.*)
(* The clock may advance by d between the two calls of time.Now.           *)
(***************************************************************************)
\* Mutant: the refresh is due as soon as the interval has elapsed.
DueAtInterval == now >= lastUpdate + refreshRate

Due == now > lastUpdate + refreshRate

MoveWindow(pressed, cursor) ==
    IF pressed
    THEN <<cursor[1] + windowPosition[1], cursor[2] + windowPosition[2]>>
    ELSE windowPosition

UpdateApp(pressed, cursor, d) ==
    /\ running
    /\ drawPc = "idle"
    /\ MoveWindow(pressed, cursor)[1] <= MaxPos
    /\ MoveWindow(pressed, cursor)[2] <= MaxPos
    /\ windowPosition' = MoveWindow(pressed, cursor)
    /\ IF ~Due
       THEN /\ d = 0
            /\ UNCHANGED <<now, lastUpdate, cycles>>
       ELSE /\ now + d <= MaxTime
            /\ Len(cycles) < MaxCycles
            /\ now' = now + d
            /\ lastUpdate' = now + d
            /\ cycles' = Append(cycles, NewCycle)
    /\ UNCHANGED <<running, config, lastText, subs, render, cached>>

Update(pressed, cursor, d) ==
    /\ UpdateApp(pressed, cursor, d)
    /\ UNCHANGED harness

(***************************************************************************)
(* App.Draw: a.subs is read once for text.BoundString and the rectangle    *)
(* and once more for text.Draw.                                            *)
(***************************************************************************)
DrawRect ==
    /\ running
    /\ drawPc = "idle"
    /\ drawBound' = subs
    /\ drawPc' = "text"
    /\ UNCHANGED <<harness, running, now, config, lastUpdate, lastText, subs,
                   windowPosition, cycles, frame, cached>>

\* Mutant: Draw takes the subtitle off once it has drawn it.
DrawTextConsumesSubs ==
    /\ running
    /\ drawPc = "text"
    /\ frame' = [bound |-> drawBound, text |-> subs]
    /\ drawBound' = EmptyString
    /\ drawPc' = "idle"
    /\ subs' = EmptyString
    /\ UNCHANGED <<harness, running, now, config, lastUpdate, lastText,
                   windowPosition, cycles, cached>>

DrawText ==
    /\ running
    /\ drawPc = "text"
    /\ frame' = [bound |-> drawBound, text |-> subs]
    /\ drawBound' = EmptyString
    /\ drawPc' = "idle"
    /\ UNCHANGED <<harness, running, now, config, lastUpdate, lastText, subs,
                   windowPosition, cycles, cached>>

(***************************************************************************)
(* The goroutine of Update, one step per external call or shared access.   *)
(***************************************************************************)
\* The goroutine returns: its locals are gone; what it extracted and whether
\* it called the translator are kept as history.
Return(cycle) ==
    [cycle EXCEPT !.pc = "done", !.translation = EmptyString,
                  !.subs0 = EmptyString, !.lastText0 = EmptyString]

\* log.Fatal().Err(err).Send(): the process exits.
Fatal(c, why) ==
    /\ cycles' = [cycles EXCEPT ![c].pc = "fatal", ![c].failed = why]
    /\ running' = FALSE

\* screenshot, err := a.screenshot(a.windowTitle)
CycleScreenshot(c, reply) ==
    /\ running
    /\ c \in Started
    /\ cycles[c].pc = "screenshot"
    /\ IF reply = "error"
       THEN Fatal(c, "capture")
       ELSE /\ cycles' = [cycles EXCEPT
                             ![c].pc = IF debug THEN "debug" ELSE "annotate"]
            /\ UNCHANGED running
    /\ UNCHANGED <<harness, now, config, lastUpdate, lastText, subs, windowPosition,
                   render, cached>>

\* if a.debug: the screenshot is saved as screenshot-<a.lastUpdate>.jpg
CycleDebug(c, reply) ==
    /\ running
    /\ c \in Started
    /\ cycles[c].pc = "debug"
    /\ IF reply = "error"
       THEN Fatal(c, "file")
       ELSE /\ cycles' = [cycles EXCEPT ![c].pc = "annotate",
                                        ![c].file = lastUpdate]
            /\ UNCHANGED running
    /\ UNCHANGED <<harness, now, config, lastUpdate, lastText, subs, windowPosition,
                   render, cached>>

\* text, err := a.annotate(screenshot)
CycleAnnotate(c, reply) ==
    /\ running
    /\ c \in Started
    /\ cycles[c].pc = "annotate"
    /\ LET r == annotate(reply, confidenceThreshold) IN
       IF r.err
       THEN Fatal(c, "recognition")
       ELSE /\ cycles' = [cycles EXCEPT ![c].pc = "compare", ![c].text = r.text]
            /\ UNCHANGED running
    /\ UNCHANGED <<harness, now, config, lastUpdate, lastText, subs, windowPosition,
                   render, cached>>

\* Mutant: the empty text is looked for before the text is compared.
CycleCompareEmptyFirst(c) ==
    /\ running
    /\ c \in Started
    /\ cycles[c].pc = "compare"
    /\ cycles' = [cycles EXCEPT ![c] =
                     IF cycles[c].text = EmptyString
                     THEN [cycles[c] EXCEPT !.pc = "clear"]
                     ELSE IF cycles[c].text = lastText THEN Return(cycles[c])
                          ELSE [cycles[c] EXCEPT !.pc = "translate"]]
    /\ UNCHANGED <<harness, running, now, config, lastUpdate, lastText, subs,
                   windowPosition, render, cached>>

\* Mutant: the empty text is not set apart and goes to the translator.
CycleCompareTranslatesEmpty(c) ==
    /\ running
    /\ c \in Started
    /\ cycles[c].pc = "compare"
    /\ cycles' = [cycles EXCEPT ![c] =
                     IF cycles[c].text = lastText THEN Return(cycles[c])
                     ELSE [cycles[c] EXCEPT !.pc = "translate"]]
    /\ UNCHANGED <<harness, running, now, config, lastUpdate, lastText, subs,
                   windowPosition, render, cached>>

\* if text == a.lastText { return }; if text == "" { ... }
CycleCompare(c) ==
    /\ running
    /\ c \in Started
    /\ cycles[c].pc = "compare"
    /\ cycles' = [cycles EXCEPT ![c] =
                     IF cycles[c].text = lastText THEN Return(cycles[c])
                     ELSE IF cycles[c].text = EmptyString
                          THEN [cycles[c] EXCEPT !.pc = "clear"]
                          ELSE [cycles[c] EXCEPT !.pc = "translate"]]
    /\ UNCHANGED <<harness, running, now, config, lastUpdate, lastText, subs,
                   windowPosition, render, cached>>

\* Mutant: the empty text returns without clearing a.subs.
CycleClearKeepsSubs(c) ==
    /\ running
    /\ c \in Started
    /\ cycles[c].pc = "clear"
    /\ cycles' = [cycles EXCEPT ![c] = Return(cycles[c])]
    /\ UNCHANGED <<harness, running, now, config, lastUpdate, lastText, subs,
                   windowPosition, render, cached>>

\* a.subs = ""; return
CycleClear(c) ==
    /\ running
    /\ c \in Started
    /\ cycles[c].pc = "clear"
    /\ subs' = EmptyString
    /\ cycles' = [cycles EXCEPT ![c] = Return(cycles[c])]
    /\ UNCHANGED <<harness, running, now, config, lastUpdate, lastText, windowPosition,
                   render, cached>>

\* Mutant: the translation is published without being recorded under its text.
CycleTranslateSkipsLastText(c, reply) ==
    /\ running
    /\ c \in Started
    /\ cycles[c].pc = "translate"
    /\ IF reply.err
       THEN /\ cycles' = [cycles EXCEPT ![c].pc = "fatal",
                                        ![c].failed = "translation",
                                        ![c].called = TRUE]
            /\ running' = FALSE
       ELSE /\ cycles' = [cycles EXCEPT ![c].pc = "setSubs",
                                        ![c].translation = reply.translation,
                                        ![c].called = TRUE]
            /\ UNCHANGED running
    /\ UNCHANGED <<harness, now, config, lastUpdate, lastText, subs, windowPosition,
                   render, cached>>

\* translation, err := a.translator.Translate(text)
CycleTranslate(c, reply) ==
    /\ running
    /\ c \in Started
    /\ cycles[c].pc = "translate"
    /\ IF reply.err
       THEN /\ cycles' = [cycles EXCEPT ![c].pc = "fatal",
                                        ![c].failed = "translation",
                                        ![c].called = TRUE]
            /\ running' = FALSE
       ELSE /\ cycles' = [cycles EXCEPT ![c].pc = "setLastText",
                                        ![c].translation = reply.translation,
                                        ![c].called = TRUE]
            /\ UNCHANGED running
    /\ UNCHANGED <<harness, now, config, lastUpdate, lastText, subs, windowPosition,
                   render, cached>>

\* Mutant: a translation that is empty is not recorded under its text.
CycleSetLastTextUnlessEmpty(c) ==
    /\ running
    /\ c \in Started
    /\ cycles[c].pc = "setLastText"
    /\ IF cycles[c].translation = EmptyString
       THEN UNCHANGED <<lastText, cached>>
       ELSE /\ lastText' = cycles[c].text
            /\ cached' = cycles[c].translation
    /\ cycles' = [cycles EXCEPT ![c].pc = "setSubs"]
    /\ UNCHANGED <<harness, running, now, config, lastUpdate, subs, windowPosition,
                   render>>

\* a.lastText = text
CycleSetLastText(c) ==
    /\ running
    /\ c \in Started
    /\ cycles[c].pc = "setLastText"
    /\ lastText' = cycles[c].text
    /\ cached' = cycles[c].translation
    /\ cycles' = [cycles EXCEPT ![c].pc = "setSubs"]
    /\ UNCHANGED <<harness, running, now, config, lastUpdate, subs, windowPosition,
                   render>>

\* Mutant: the goroutine stamps a.lastUpdate when it publishes.
CycleSetSubsStampsUpdate(c) ==
    /\ running
    /\ c \in Started
    /\ cycles[c].pc = "setSubs"
    /\ subs' = cycles[c].translation
    /\ lastUpdate' = now
    /\ cycles' = [cycles EXCEPT ![c] = Return(cycles[c])]
    /\ UNCHANGED <<harness, running, now, config, lastText, windowPosition,
                   render, cached>>

\* a.subs = translation
CycleSetSubs(c) ==
    /\ running
    /\ c \in Started
    /\ cycles[c].pc = "setSubs"
    /\ subs' = cycles[c].translation
    /\ cycles' = [cycles EXCEPT ![c] = Return(cycles[c])]
    /\ UNCHANGED <<harness, running, now, config, lastUpdate, lastText, windowPosition,
                   render, cached>>

Next ==
    \/ AdvanceTime
    \/ \E pressed \in BOOLEAN, cursor \in Cursors, d \in 0..1 :
           Update(pressed, cursor, d)
    \/ DrawRect
    \/ DrawText
    \/ \E c \in CycleIds, reply \in CaptureReplies : CycleScreenshot(c, reply)
    \/ \E c \in CycleIds, reply \in FileReplies : CycleDebug(c, reply)
    \/ \E c \in CycleIds, reply \in RecognizerReplies : CycleAnnotate(c, reply)
    \/ \E c \in CycleIds : CycleCompare(c)
    \/ \E c \in CycleIds : CycleClear(c)
    \/ \E c \in CycleIds, reply \in TranslatorReplies : CycleTranslate(c, reply)
    \/ \E c \in CycleIds : CycleSetLastText(c)
    \/ \E c \in CycleIds : CycleSetSubs(c)

Spec == Init /\ [][Next]_vars

(***************************************************************************)
(* filterTextByConfidence on its own: the recognition results it is        *)
(* applied to are built from up to MaxWords words, each starting a new     *)
(* page, block or paragraph or continuing the paragraph, and some results  *)
(* with an empty level.                                                    *)
(***************************************************************************)
WordChoices ==
    {Word(95, <<"a", "b">>), Word(40, <<"c">>), Word(99, <<"d">>),
     Word(60, <<"e">>)}

\* Where a word starts: 0 in the current paragraph, 1 a new paragraph,
\* 2 a new block, 3 a new page.
Breaks == 0..3

AppendWord(annotation, word, brk) ==
    LET pages == annotation.Pages
        np == Len(pages)
    IN IF pages = <<>> \/ brk = 3
       THEN TextAnnotation(Append(pages, Page(<<Block(<<Paragraph(<<word>>)>>)>>)))
       ELSE LET nb == Len(pages[np].Blocks)
                nq == Len(pages[np].Blocks[nb].Paragraphs)
            IN IF brk = 2
               THEN [annotation EXCEPT !.Pages[np].Blocks =
                        Append(@, Block(<<Paragraph(<<word>>)>>))]
               ELSE IF brk = 1
               THEN [annotation EXCEPT !.Pages[np].Blocks[nb].Paragraphs =
                        Append(@, Paragraph(<<word>>))]
               ELSE [annotation EXCEPT
                        !.Pages[np].Blocks[nb].Paragraphs[nq].Words =
                            Append(@, word)]

RECURSIVE BuildAnnotation(_, _)
BuildAnnotation(annotation, items) ==
    IF items = <<>> THEN annotation
    ELSE BuildAnnotation(
             AppendWord(annotation, Head(items)[1], Head(items)[2]),
             Tail(items))

DegenerateAnnotations ==
    {TextAnnotation(<<Page(<<>>)>>),
     TextAnnotation(<<Page(<<Block(<<>>)>>)>>),
     TextAnnotation(<<Page(<<Block(<<Paragraph(<<>>)>>)>>)>>),
     TextAnnotation(<<Page(<<Block(<<Paragraph(<<Word(95, <<>>)>>)>>)>>)>>),
     TextAnnotation(<<Page(<<Block(<<Paragraph(<<
         [Confidence |-> 60,
          Symbols |-> <<Symbol(60, <<"x", "y">>), Symbol(60, EmptyString),
                        Symbol(60, <<"z">>)>>]
         >>)>>)>>)>>),
     \* a confident word with one symbol the recognizer is not sure of
     TextAnnotation(<<Page(<<Block(<<Paragraph(<<
         [Confidence |-> 95,
          Symbols |-> <<Symbol(97, <<"f">>), Symbol(30, <<"g">>)>>]
         >>)>>)>>)>>)}

FilterInputs ==
    {BuildAnnotation(TextAnnotation(<<>>), items) :
        items \in UNION {[1..n -> WordChoices \X Breaks] : n \in 0..MaxWords}}
    \cup DegenerateAnnotations

\* confidence-threshold as the configuration file gives it: main hands
\* config.ConfidenceThreshold to the App as it is, whatever its value.
FilterThresholds == {-10, 60, 99, 150}

\* What DetectDocumentText can reply to annotate.
AnnotateReplies ==
    {[kind |-> "error", annotation |-> TextAnnotation(<<>>)],
     [kind |-> "nil", annotation |-> TextAnnotation(<<>>)]}
    \cup {[kind |-> "annotation", annotation |-> a] :
              a \in Annotations \cup DegenerateAnnotations}

InitFilter ==
    /\ ProgramInit
    /\ debug = FALSE
    /\ call \in {[fn |-> "filterTextByConfidence", annotation |-> a, threshold |-> t] :
                    a \in FilterInputs, t \in FilterThresholds}
               \cup {[fn |-> "annotate", reply |-> r, threshold |-> t] :
                    r \in AnnotateReplies, t \in FilterThresholds}
    /\ result = NoResult

ApplyFilter ==
    /\ call.fn = "filterTextByConfidence"
    /\ result.fn = "none"
    /\ result' = [fn |-> "filterTextByConfidence",
                  text |-> filterTextByConfidence(call.annotation, call.threshold)]
    /\ UNCHANGED <<call, running, now, config, lastUpdate, lastText, subs,
                   windowPosition, cycles, render, cached>>

ApplyAnnotate ==
    /\ call.fn = "annotate"
    /\ result.fn = "none"
    /\ LET r == annotate(call.reply, call.threshold)
       IN result' = [fn |-> "annotate", text |-> r.text, err |-> r.err]
    /\ UNCHANGED <<call, running, now, config, lastUpdate, lastText, subs,
                   windowPosition, cycles, render, cached>>

NextFilter ==
    \/ ApplyFilter
    \/ ApplyAnnotate

SpecFilter == InitFilter /\ [][NextFilter]_vars

(***************************************************************************)
(* App.Draw of the banner (the version that wraps the subtitle): the       *)
(* subtitle is split into words, the words are wrapped greedily against    *)
(* the window width as text.BoundString measures them with a.subsFont, and *)
(* the block is placed.  A font is modelled by the advance of its glyphs;  *)
(* a glyph's ink spans its advance, the space and the line break have no   *)
(* ink.                                                                    *)
(***************************************************************************)
IsSpace(c) == c \in {" ", "\n"}

\* strings.Fields
RECURSIVE FieldsFrom(_, _, _)
FieldsFrom(s, word, fields) ==
    IF s = <<>>
    THEN IF word = <<>> THEN fields ELSE Append(fields, word)
    ELSE IF IsSpace(Head(s))
         THEN FieldsFrom(Tail(s), <<>>,
                         IF word = <<>> THEN fields ELSE Append(fields, word))
         ELSE FieldsFrom(Tail(s), Append(word, Head(s)), fields)

Fields(s) == FieldsFrom(s, <<>>, <<>>)

\* a.subsFont: the advance of a glyph.
GlyphAdvance(c) ==
    CASE c = "w" -> 100
      [] c = "i" -> 40
      [] c = " " -> 20
      [] OTHER -> 0

\* text.BoundString: the pen fx moves by the advance of each glyph and goes
\* back to 0 at a line break; the bounds are the union of the glyphs' ink.
RECURSIVE BoundFrom(_, _, _)
BoundFrom(s, fx, bounds) ==
    IF s = <<>> THEN bounds
    ELSE LET c == Head(s) IN
         IF c = "\n" THEN BoundFrom(Tail(s), 0, bounds)
         ELSE IF IsSpace(c) THEN BoundFrom(Tail(s), fx + GlyphAdvance(c), bounds)
         ELSE BoundFrom(Tail(s), fx + GlyphAdvance(c),
                  IF bounds.ink
                  THEN [ink |-> TRUE,
                        MinX |-> IF fx < bounds.MinX THEN fx ELSE bounds.MinX,
                        MaxX |-> IF fx + GlyphAdvance(c) > bounds.MaxX
                                 THEN fx + GlyphAdvance(c) ELSE bounds.MaxX]
                  ELSE [ink |-> TRUE, MinX |-> fx, MaxX |-> fx + GlyphAdvance(c)])

BoundString(s) == BoundFrom(s, 0, [ink |-> FALSE, MinX |-> 0, MaxX |-> 0])

Dx(bound) == bound.MaxX - bound.MinX

\* Mutant: on a wrap the line is thrown away instead of being written.
RECURSIVE WrapWordsDroppingLine(_, _, _, _)
WrapWordsDroppingLine(words, line, subtitles, width) ==
    IF words = <<>> THEN subtitles \o line
    ELSE LET word == Head(words)
             wraps == Dx(BoundString(line \o word)) > width
         IN WrapWordsDroppingLine(Tail(words),
                (IF wraps THEN <<>> ELSE line) \o word \o <<" ">>,
                IF wraps THEN subtitles \o <<"\n">> ELSE subtitles,
                width)

\* Mutant: only the word is measured, not the line with the word added.
RECURSIVE WrapWordsMeasuringWord(_, _, _, _)
WrapWordsMeasuringWord(words, line, subtitles, width) ==
    IF words = <<>> THEN subtitles \o line
    ELSE LET word == Head(words)
             wraps == Dx(BoundString(word)) > width
         IN WrapWordsMeasuringWord(Tail(words),
                (IF wraps THEN <<>> ELSE line) \o word \o <<" ">>,
                IF wraps THEN subtitles \o line \o <<"\n">> ELSE subtitles,
                width)

\* Mutant: a line that fits exactly is wrapped too.
RECURSIVE WrapWordsAtExactFit(_, _, _, _)
WrapWordsAtExactFit(words, line, subtitles, width) ==
    IF words = <<>> THEN subtitles \o line
    ELSE LET word == Head(words)
             wraps == Dx(BoundString(line \o word)) >= width
         IN WrapWordsAtExactFit(Tail(words),
                (IF wraps THEN <<>> ELSE line) \o word \o <<" ">>,
                IF wraps THEN subtitles \o line \o <<"\n">> ELSE subtitles,
                width)

\* The loop over strings.Fields(a.subs), with its two buffers.
RECURSIVE WrapWords(_, _, _, _)
WrapWords(words, line, subtitles, width) ==
    IF words = <<>> THEN subtitles \o line
    ELSE LET word == Head(words)
             wraps == Dx(BoundString(line \o word)) > width
         IN WrapWords(Tail(words),
                (IF wraps THEN <<>> ELSE line) \o word \o <<" ">>,
                IF wraps THEN subtitles \o line \o <<"\n">> ELSE subtitles,
                width)

\* Mutant: the block is centred even when it is wider than the window.
PlaceBlockAlwaysCentred(boxSizeX, width) == (width - boxSizeX) \div 2

\* x := 0; if boxSize.X < width { x = (width - boxSize.X) / 2 }
PlaceBlock(boxSizeX, width) ==
    IF boxSizeX < width THEN (width - boxSizeX) \div 2 ELSE 0

\* What one Draw puts on the screen.
Draw(s, width, decorated) ==
    LET subtitles == WrapWords(Fields(s), <<>>, <<>>, width)
        boxSizeX == BoundString(subtitles).MaxX
    IN [fn |-> "Draw",
        backdrop |-> decorated,
        message |-> IF ~decorated THEN "none"
                    ELSE IF s = EmptyString THEN "toggle, no text"
                    ELSE "toggle",
        drawn |-> s # EmptyString,
        subtitles |-> IF s = EmptyString THEN EmptyString ELSE subtitles,
        boxSizeX |-> IF s = EmptyString THEN 0 ELSE boxSizeX,
        x |-> IF s = EmptyString THEN 0 ELSE PlaceBlock(boxSizeX, width)]

MaxSubsLen == 9

SubsChars == {"w", "i", " "}

SubsInputs == UNION {[1..n -> SubsChars] : n \in 0..MaxSubsLen}

\* ebiten.WindowSize: the width of the window.
Widths == {255, 400, 460}

InitLayout ==
    /\ ProgramInit
    /\ debug = FALSE
    /\ call \in {[fn |-> "Draw", subs |-> s, width |-> w, decorated |-> d] :
                    s \in SubsInputs, w \in Widths, d \in BOOLEAN}
    /\ result = NoResult

ApplyDraw ==
    /\ call.fn = "Draw"
    /\ result.fn = "none"
    /\ result' = Draw(call.subs, call.width, call.decorated)
    /\ UNCHANGED <<call, running, now, config, lastUpdate, lastText, subs,
                   windowPosition, cycles, render, cached>>

NextLayout == ApplyDraw

SpecLayout == InitLayout /\ [][NextLayout]_vars

(***************************************************************************)
(* The move window handler with the pointer on the screen: the cursor that *)
(* ebiten.CursorPosition returns is the pointer relative to the window.    *)
(* call keeps the pointer of this tick and of the tick before, result the  *)
(* window position the tick found.                                         *)
(***************************************************************************)
Pointers == (0..MaxPos) \X (0..MaxPos)

CursorPosition(pointer) ==
    <<pointer[1] - windowPosition[1], pointer[2] - windowPosition[2]>>

InitDrag ==
    /\ ProgramInit
    /\ debug = FALSE
    /\ call \in {[fn |-> "Update", pressed |-> FALSE, pointer |-> p, previous |-> p] :
                    p \in Pointers}
    /\ result = [fn |-> "Update", from |-> windowPosition]

DragUpdate(pressed, pointer, d) ==
    /\ UpdateApp(pressed, CursorPosition(pointer), d)
    /\ call' = [fn |-> "Update", pressed |-> pressed, pointer |-> pointer,
                previous |-> call.pointer]
    /\ result' = [fn |-> "Update", from |-> windowPosition]

NextDrag ==
    \/ AdvanceTime
    \/ \E pressed \in BOOLEAN, pointer \in Pointers, d \in 0..1 :
           DragUpdate(pressed, pointer, d)

SpecDrag == InitDrag /\ [][NextDrag]_vars

\* One render tick, whatever the pointer does.
Tick ==
    \E pressed \in BOOLEAN, cursor \in Cursors, d \in 0..1 :
        Update(pressed, cursor, d)

(***************************************************************************)
(* The configuration: time.ParseDuration for refresh-rate and              *)
(* parseColorString (fmt.Sscanf with "#%02x%02x%02x") for the colours,     *)
(* both on strings as sequences of characters.                             *)
(***************************************************************************)
Digits == <<"0", "1", "2", "3", "4", "5", "6", "7", "8", "9">>

IsDigit(c) == \E i \in DOMAIN Digits : Digits[i] = c

DigitValue(c) == (CHOOSE i \in DOMAIN Digits : Digits[i] = c) - 1

HexLower == Digits \o <<"a", "b", "c", "d", "e", "f">>

HexUpper == Digits \o <<"A", "B", "C", "D", "E", "F">>

IsHex(c) == \E i \in DOMAIN HexLower : HexLower[i] = c \/ HexUpper[i] = c

HexValue(c) == (CHOOSE i \in DOMAIN HexLower : HexLower[i] = c \/ HexUpper[i] = c) - 1

\* The units of time.ParseDuration that are whole seconds, in seconds.
UnitSeconds(unit) ==
    CASE unit = <<"s">> -> 1
      [] unit = <<"m">> -> 60
      [] unit = <<"h">> -> 3600
      [] OTHER -> 0

\* The leading digits of s as a number, and the leading run of s that is
\* no digit.
RECURSIVE LeadingInt(_, _)
LeadingInt(s, n) ==
    IF s = <<>> \/ ~IsDigit(Head(s)) THEN [value |-> n, rest |-> s]
    ELSE LeadingInt(Tail(s), 10 * n + DigitValue(Head(s)))

RECURSIVE LeadingUnit(_, _)
LeadingUnit(s, unit) ==
    IF s = <<>> \/ IsDigit(Head(s)) THEN [unit |-> unit, rest |-> s]
    ELSE LeadingUnit(Tail(s), Append(unit, Head(s)))

\* time.ParseDuration, for strings of digits and the units s, m and h:
\* [-+]?([0-9]+[a-z]+)+, or "0".
RECURSIVE ParseGroups(_, _)
ParseGroups(s, total) ==
    IF s = <<>> THEN [err |-> FALSE, d |-> total]
    ELSE IF ~IsDigit(Head(s)) THEN [err |-> TRUE, d |-> 0]
    ELSE LET n == LeadingInt(s, 0)
             u == LeadingUnit(n.rest, <<>>)
         IN IF u.unit = <<>> \/ UnitSeconds(u.unit) = 0
            THEN [err |-> TRUE, d |-> 0]
            ELSE ParseGroups(u.rest, total + n.value * UnitSeconds(u.unit))

ParseDuration(s) ==
    LET neg == s # <<>> /\ Head(s) = "-"
        body == IF s # <<>> /\ Head(s) \in {"-", "+"} THEN Tail(s) ELSE s
        r == ParseGroups(body, 0)
    IN IF body = <<"0">> THEN [err |-> FALSE, d |-> 0]
       ELSE IF body = <<>> THEN [err |-> TRUE, d |-> 0]
       ELSE IF r.err THEN r
       ELSE [err |-> FALSE, d |-> IF neg THEN 0 - r.d ELSE r.d]

\* The %02x verb of Sscanf at position i: spaces are skipped, then one or
\* two hexadecimal digits are read.
RECURSIVE SkipSpace(_, _)
SkipSpace(s, i) ==
    IF i <= Len(s) /\ s[i] = " " THEN SkipSpace(s, i + 1) ELSE i

ScanHexByte(s, i) ==
    LET j == SkipSpace(s, i)
    IN IF j > Len(s) \/ ~IsHex(s[j])
       THEN [err |-> TRUE, value |-> 0, next |-> j]
       ELSE IF j + 1 <= Len(s) /\ IsHex(s[j + 1])
            THEN [err |-> FALSE, value |-> 16 * HexValue(s[j]) + HexValue(s[j + 1]),
                  next |-> j + 2]
            ELSE [err |-> FALSE, value |-> HexValue(s[j]), next |-> j + 1]

ZeroColor == [R |-> 0, G |-> 0, B |-> 0, A |-> 0]

parseColorString(s) ==
    IF Len(s) # 7 THEN [err |-> TRUE, c |-> ZeroColor]
    ELSE IF Head(s) # "#" THEN [err |-> TRUE, c |-> ZeroColor]
    ELSE LET r == ScanHexByte(s, 2)
             g == ScanHexByte(s, r.next)
             b == ScanHexByte(s, g.next)
         IN IF r.err \/ g.err \/ b.err THEN [err |-> TRUE, c |-> ZeroColor]
            ELSE [err |-> FALSE,
                  c |-> [R |-> r.value, G |-> g.value, B |-> b.value, A |-> 0]]

\* Font.GetColor and Background.GetColor.
FontGetColor(s) ==
    LET p == parseColorString(s)
    IN IF p.err THEN p ELSE [err |-> FALSE, c |-> [p.c EXCEPT !.A = 255]]

BackgroundGetColor(s, opacity) ==
    LET p == parseColorString(s)
    IN IF p.err THEN p ELSE [err |-> FALSE, c |-> [p.c EXCEPT !.A = opacity % 256]]

(***************************************************************************)
(* main: from the start of the process to ebiten.RunGame.  call is the     *)
(* folder the program is started in, result where main stands and what it  *)
(* has got so far.                                                         *)
(***************************************************************************)
\* The folder of the executable, and another folder.
Folders == {"executable", "elsewhere"}

ColorStrings ==
    {<<"#", "f", "f", "f", "f", "f", "f">>,
     <<"#", "4", "0", "4", "0", "4", "0">>,
     <<"#", "f", "f", "f", "f", "f">>,
     <<"#", "g", "g", "g", "g", "g", "g">>,
     <<"#", "1", "2", "3", "4", "5", "g">>,
     <<"#", "1", " ", "2", " ", "3", " ">>,
     <<"4", "0", "4", "0", "4", "0", "0">>}

RefreshRateStrings == {<<"1", "s">>, <<"1">>, <<"1", "x">>, <<>>}

Apis == {"google", "deepl", "bing"}

\* What config.yml can hold.
Configurations ==
    [api : Apis,
     fontColor : ColorStrings,
     backgroundColor : ColorStrings,
     opacity : {208},
     refreshRate : RefreshRateStrings,
     confidenceThreshold : {60, 150},
     debug : {FALSE}]

\* The zero Configuration.
ZeroConfiguration ==
    [api |-> "", fontColor |-> EmptyString, backgroundColor |-> EmptyString,
     opacity |-> 0, refreshRate |-> EmptyString, confidenceThreshold |-> 0,
     debug |-> FALSE]

\* configuration.Read: the file is read, no file is found, or another error.
ReadReplies == {"ok", "notFound", "error"}

InitMain ==
    /\ running = TRUE
    /\ now = StartTime
    /\ refreshRate = 0
    /\ confidenceThreshold = 0
    /\ debug = FALSE
    /\ lastUpdate = ZeroTime
    /\ lastText = EmptyString
    /\ subs = EmptyString
    /\ windowPosition = <<0, 0>>
    /\ cycles = <<>>
    /\ drawPc = "idle"
    /\ drawBound = EmptyString
    /\ frame = [bound |-> EmptyString, text |-> EmptyString]
    /\ cached = EmptyString
    /\ call \in {[fn |-> "main", cwd |-> f] : f \in Folders}
    /\ result = [fn |-> "main", pc |-> "read", read |-> "none",
                 config |-> ZeroConfiguration, files |-> {},
                 visionClient |-> FALSE, translator |-> FALSE,
                 fontColor |-> ZeroColor, backgroundColor |-> ZeroColor,
                 exit |-> "none"]

\* What no step of main before RunGame touches.
loop == <<now, lastUpdate, lastText, subs, windowPosition, cycles, render, cached>>

\* main goes on to the next step.
MainGoes(next) ==
    /\ result' = next
    /\ UNCHANGED <<call, running, config, loop>>

\* The process ends: return from main, log.Fatal (os.Exit) or log.Panic.
MainExits(how, last) ==
    /\ result' = [last EXCEPT !.pc = "exit", !.exit = how]
    /\ running' = FALSE
    /\ UNCHANGED <<call, config, loop>>

\* config, err := configuration.Read() and the switch on err
MainRead(reply, configuration) ==
    /\ running
    /\ result.pc = "read"
    /\ LET got == [result EXCEPT !.read = reply] IN
       IF reply = "ok"
       THEN MainGoes([got EXCEPT !.pc = "flags", !.config = configuration])
       ELSE IF reply = "notFound"
       THEN MainGoes([got EXCEPT !.pc = "writeDefault"])
       ELSE MainExits("fatal", got)

\* configuration.WriteDefault: config.yml beside the executable.
WriteDefault(files, reply) ==
    IF reply = "error" THEN [err |-> TRUE, files |-> files]
    ELSE [err |-> FALSE, files |-> files \cup {"executable"}]

\* if err = configuration.WriteDefault(); err != nil {...}; return
MainWriteDefault(reply) ==
    /\ running
    /\ result.pc = "writeDefault"
    /\ LET w == WriteDefault(result.files, reply) IN
       IF w.err THEN MainExits("fatal", result)
       ELSE MainExits("return", [result EXCEPT !.files = w.files])

\* debug := flag.Bool("d", ...); if *debug { config.Debug = true }
MainFlags(d) ==
    /\ running
    /\ result.pc = "flags"
    /\ MainGoes([result EXCEPT !.pc = "vision",
                               !.config.debug = result.config.debug \/ d])

\* visionClient, err := vision.NewImageAnnotatorClient(...)
MainVision(reply) ==
    /\ running
    /\ result.pc = "vision"
    /\ IF reply = "error" THEN MainExits("fatal", result)
       ELSE MainGoes([result EXCEPT !.pc = "translator", !.visionClient = TRUE])

\* translator, err := config.GetTranslator()
MainTranslator(reply) ==
    /\ running
    /\ result.pc = "translator"
    /\ IF result.config.api \notin {"google", "deepl"}
       THEN MainExits("fatal", result)
       ELSE IF reply = "error" THEN MainExits("fatal", result)
       ELSE MainGoes([result EXCEPT !.pc = "fontColor", !.translator = TRUE])

\* fontColor, err := config.Subs.Font.GetColor()
MainFontColor ==
    /\ running
    /\ result.pc = "fontColor"
    /\ LET got == FontGetColor(result.config.fontColor) IN
       IF got.err THEN MainExits("fatal", result)
       ELSE MainGoes([result EXCEPT !.pc = "backgroundColor", !.fontColor = got.c])

\* backgroundColor, err := config.Subs.Background.GetColor()
MainBackgroundColor ==
    /\ running
    /\ result.pc = "backgroundColor"
    /\ LET got == BackgroundGetColor(result.config.backgroundColor,
                                     result.config.opacity) IN
       IF got.err THEN MainExits("fatal", result)
       ELSE MainGoes([result EXCEPT !.pc = "font", !.backgroundColor = got.c])

\* opentype.Parse and opentype.NewFace
MainFont(reply) ==
    /\ running
    /\ result.pc = "font"
    /\ IF reply = "error" THEN MainExits("fatal", result)
       ELSE MainGoes([result EXCEPT !.pc = "app"])

\* app := &App{...}, with config.GetRefreshRate(), and ebiten.RunGame(app)
MainRunGame ==
    /\ running
    /\ result.pc = "app"
    /\ LET rate == ParseDuration(result.config.refreshRate) IN
       IF rate.err THEN MainExits("panic", result)
       ELSE /\ result' = [result EXCEPT !.pc = "loop"]
            /\ refreshRate' = rate.d
            /\ confidenceThreshold' = result.config.confidenceThreshold
            /\ debug' = result.config.debug
            /\ UNCHANGED <<call, running, loop>>

\* The render loop, once entered, ticks.
MainTick ==
    /\ result.pc = "loop"
    /\ Tick

NextMain ==
    \/ \E reply \in ReadReplies, configuration \in Configurations :
           MainRead(reply, configuration)
    \/ \E reply \in FileReplies : MainWriteDefault(reply)
    \/ \E d \in BOOLEAN : MainFlags(d)
    \/ \E reply \in {"ok", "error"} : MainVision(reply)
    \/ \E reply \in {"ok", "error"} : MainTranslator(reply)
    \/ MainFontColor
    \/ MainBackgroundColor
    \/ \E reply \in {"ok", "error"} : MainFont(reply)
    \/ MainRunGame
    \/ MainTick

SpecMain == InitMain /\ [][NextMain]_vars

(***************************************************************************)
(* The overlay state machine: the mode and the font size that the hotkeys  *)
(* change.  result keeps the mode, the last mode other than Off, the font  *)
(* size and trail: the mode before the current run of consecutive switch   *)
(* mode actions and the mode after each of them, the last four at most.    *)
(***************************************************************************)
Modes == {"Off", "Banner", "Inplace"}

InitialModes == {"Off", "Banner"}

MinFontSize == 8

MaxFontSize == 12

TrailLen == 4

\* Mutant: switch mode leaves Inplace for Banner and never turns the overlay off.
SwitchModeSkippingOff(mode) ==
    CASE mode = "Off" -> "Banner"
      [] mode = "Banner" -> "Inplace"
      [] mode = "Inplace" -> "Banner"

\* The "switch mode" action: off -> banner -> inplace -> off.
SwitchMode(mode) ==
    CASE mode = "Off" -> "Banner"
      [] mode = "Banner" -> "Inplace"
      [] mode = "Inplace" -> "Off"

\* The "toggle overlay" action: between Off and the last mode other than Off.
ToggleOverlay(mode, last) == IF mode = "Off" THEN last ELSE "Off"

LastNonOff(mode, last) == IF mode = "Off" THEN last ELSE mode

Extend(trail, mode) ==
    IF Len(trail) < TrailLen
    THEN Append(trail, mode)
    ELSE Append(Tail(trail), mode)

InitOverlay ==
    /\ ProgramInit
    /\ debug = FALSE
    /\ call \in {[fn |-> "overlay", start |-> m] : m \in InitialModes}
    /\ result = [fn |-> "overlay", mode |-> call.start, last |-> "Banner",
                 fontSize |-> MinFontSize, trail |-> <<call.start>>]

OverlayGoes(state) ==
    /\ result' = state
    /\ UNCHANGED <<call, running, now, config, lastUpdate, lastText, subs,
                   windowPosition, cycles, render, cached>>

OverlaySwitchMode ==
    LET mode == SwitchMode(result.mode) IN
    OverlayGoes([result EXCEPT !.mode = mode,
                               !.last = LastNonOff(mode, @),
                               !.trail = Extend(@, mode)])

OverlayToggle ==
    LET mode == ToggleOverlay(result.mode, result.last) IN
    OverlayGoes([result EXCEPT !.mode = mode, !.trail = <<mode>>])

OverlayFontSizeUp ==
    /\ result.fontSize < MaxFontSize
    /\ OverlayGoes([result EXCEPT !.fontSize = @ + 1,
                                  !.trail = <<result.mode>>])

OverlayFontSizeDown ==
    OverlayGoes([result EXCEPT
                    !.fontSize = IF @ - 1 < MinFontSize THEN MinFontSize ELSE @ - 1,
                    !.trail = <<result.mode>>])

NextOverlay ==
    \/ OverlaySwitchMode
    \/ OverlayToggle
    \/ OverlayFontSizeUp
    \/ OverlayFontSizeDown

SpecOverlay == InitOverlay /\ [][NextOverlay]_vars

(***************************************************************************)
(* The window of the program with the T key (part_003): Update flips the   *)
(* decoration of the window when T has just been pressed, and the          *)
(* goroutines run beside it.  call is the key of the tick, result the      *)
(* decoration of the window and the colours main has put in the App, for   *)
(* a configuration with a white font on a grey background of opacity 208.  *)
(***************************************************************************)
ConfiguredFontColor == <<"#", "f", "f", "f", "f", "f", "f">>

ConfiguredBackgroundColor == <<"#", "4", "0", "4", "0", "4", "0">>

InitWindow ==
    /\ ProgramInit
    /\ debug = FALSE
    /\ call = [fn |-> "Update", keyT |-> FALSE, presses |-> 0]
    /\ result = [fn |-> "window", decorated |-> TRUE,
                 subsFontColor |-> FontGetColor(ConfiguredFontColor).c,
                 subsBackgroundColor |->
                     BackgroundGetColor(ConfiguredBackgroundColor, 208).c]

\* The key of a tick, and whether T has been pressed an odd number of times.
Pressed(keyT) ==
    [fn |-> "Update", keyT |-> keyT,
     presses |-> IF keyT THEN 1 - call.presses ELSE call.presses]

\* Mutant: a tick that toggles the decoration returns without the due check.
KeyUpdateReturnsAfterToggle(keyT, d) ==
    /\ IF keyT
       THEN /\ running
            /\ drawPc = "idle"
            /\ d = 0
            /\ UNCHANGED <<running, now, config, lastUpdate, lastText, subs,
                           windowPosition, cycles, render, cached>>
       ELSE UpdateApp(FALSE, <<0, 0>>, d)
    /\ call' = Pressed(keyT)
    /\ result' = [result EXCEPT !.decorated = IF keyT THEN ~@ ELSE @]

\* if inpututil.IsKeyJustPressed(ebiten.KeyT) { ... }, then the due check.
KeyUpdate(keyT, d) ==
    /\ UpdateApp(FALSE, <<0, 0>>, d)
    /\ call' = Pressed(keyT)
    /\ result' = [result EXCEPT !.decorated = IF keyT THEN ~@ ELSE @]

NextWindow ==
    \/ AdvanceTime
    \/ \E keyT \in BOOLEAN, d \in 0..1 : KeyUpdate(keyT, d)
    \/ \E c \in CycleIds, reply \in CaptureReplies : CycleScreenshot(c, reply)
    \/ \E c \in CycleIds, reply \in RecognizerReplies : CycleAnnotate(c, reply)
    \/ \E c \in CycleIds : CycleCompare(c)
    \/ \E c \in CycleIds : CycleClear(c)
    \/ \E c \in CycleIds, reply \in TranslatorReplies : CycleTranslate(c, reply)
    \/ \E c \in CycleIds : CycleSetLastText(c)
    \/ \E c \in CycleIds : CycleSetSubs(c)

SpecWindow == InitWindow /\ [][NextWindow]_vars

(***************************************************************************)
(* The program under the scheduling the Go runtime gives: a goroutine that *)
(* can run its next statement runs it, and the render loop keeps calling   *)
(* Draw, which completes.  Nothing makes an external call return: the      *)
(* capture, the recognizer (context.Background()) and the translator are   *)
(* called without deadline.                                                *)
(***************************************************************************)
Fairness ==
    /\ WF_vars(DrawRect)
    /\ WF_vars(DrawText)
    /\ \A c \in CycleIds :
           /\ WF_vars(CycleCompare(c))
           /\ WF_vars(CycleClear(c))
           /\ WF_vars(CycleSetLastText(c))
           /\ WF_vars(CycleSetSubs(c))

SpecFair == Init /\ [][Next]_vars /\ Fairness

(***************************************************************************)
(* DeepL.Translate on its own.  client.Do returns a response or none, and  *)
(* an error or none; the body of a response decodes to a DeepLResponse or  *)
(* does not.  call is the source text and the reply of client.Do, result   *)
(* what Translate returned, or that it panicked.                           *)
(***************************************************************************)
MaxSourceLen == 2

MaxListed == 2

SourceTexts == UNION {[1..n -> {"a", "b"}] : n \in 0..MaxSourceLen}

\* The translations array of a DeepLResponse.
DeepLTranslations ==
    UNION {[1..n -> {[DetectedSourceLanguage |-> "JA", Text |-> t] :
                        t \in Translations}] : n \in 0..MaxListed}

\* resp, err := client.Do(r): no response and an error when the request
\* fails, a response and an error when the redirect policy fails, else a
\* response whose body is a DeepLResponse or is not.
HttpReplies ==
    {[resp |-> FALSE, err |-> TRUE, decodes |-> FALSE, translations |-> <<>>],
     [resp |-> TRUE, err |-> TRUE, decodes |-> FALSE, translations |-> <<>>],
     [resp |-> TRUE, err |-> FALSE, decodes |-> FALSE, translations |-> <<>>]}
    \cup {[resp |-> TRUE, err |-> FALSE, decodes |-> TRUE, translations |-> l] :
             l \in DeepLTranslations}

Returned(text, err) == [outcome |-> "return", text |-> text, err |-> err]

\* A nil pointer dereference: the goroutine panics and the process crashes.
Panicked == [outcome |-> "panic", text |-> EmptyString, err |-> FALSE]

\* defer resp.Body.Close() evaluates resp.Body before err is looked at.
DeepLTranslate(source, reply) ==
    IF ~reply.resp THEN Panicked
    ELSE IF reply.err THEN Returned(EmptyString, TRUE)
    ELSE IF ~reply.decodes THEN Returned(EmptyString, TRUE)
    ELSE IF Len(reply.translations) = 0 THEN Returned(EmptyString, FALSE)
    ELSE Returned(reply.translations[1].Text, FALSE)

InitDeepL ==
    /\ ProgramInit
    /\ debug = FALSE
    /\ call \in {[fn |-> "DeepL.Translate", source |-> s, reply |-> r] :
                    s \in SourceTexts, r \in HttpReplies}
    /\ result = NoResult

ApplyDeepL ==
    /\ call.fn = "DeepL.Translate"
    /\ result.fn = "none"
    /\ LET r == DeepLTranslate(call.source, call.reply)
       IN result' = [fn |-> "DeepL.Translate", text |-> r.text, err |-> r.err,
                     outcome |-> r.outcome, sent |-> call.source]
    /\ UNCHANGED <<call, running, now, config, lastUpdate, lastText, subs,
                   windowPosition, cycles, render, cached>>

NextDeepL == ApplyDeepL

SpecDeepL == InitDeepL /\ [][NextDeepL]_vars

(***************************************************************************)
(* Font.GetColor and Background.GetColor on their own.  call is the        *)
(* subs section of a configuration, result the two colours or the errors.  *)
(***************************************************************************)
\* subs.background.opacity, an int of the configuration file.
Opacities == {-1, 0, 208, 255, 256, 464}

InitColor ==
    /\ ProgramInit
    /\ debug = FALSE
    /\ call \in {[fn |-> "GetColor", fontColor |-> f, backgroundColor |-> b,
                  opacity |-> o] :
                    f \in ColorStrings, b \in ColorStrings, o \in Opacities}
    /\ result = NoResult

ApplyGetColor ==
    /\ call.fn = "GetColor"
    /\ result.fn = "none"
    /\ result' = [fn |-> "GetColor",
                  font |-> FontGetColor(call.fontColor),
                  background |-> BackgroundGetColor(call.backgroundColor,
                                                    call.opacity)]
    /\ UNCHANGED <<call, running, now, config, lastUpdate, lastText, subs,
                   windowPosition, cycles, render, cached>>

NextColor == ApplyGetColor

SpecColor == InitColor /\ [][NextColor]_vars

(***************************************************************************)
(* Claims about the pipeline scheduler and the published subtitle.         *)
(***************************************************************************)

\* C1: at most one pipeline cycle is running at any time; a due tick that
\* finds a cycle still running starts no new one.
AtMostOneInFlight == Cardinality(InFlight) <= 1

\* C2: no failure inside a pipeline cycle (capture, recognition or
\* translator error) terminates the process: whenever a cycle has failed,
\* the process is still running.
CycleFailureIsNotFatal ==
    \A c \in Started : cycles[c].failed # "none" => running

\* C4: a Draw observes exactly one subtitle value: the rectangle of a frame
\* is sized from the same value of a.subs that the frame shows as text.
FrameShowsOneSubtitle == frame.bound = frame.text

\* C3: the render tick never waits for capture, recognition or translation:
\* a tick can be taken whatever the cycles in flight are doing (here, as long
\* as the bound on started cycles leaves room for a due tick), and the tick
\* that launches a cycle leaves that cycle before its first external call
\* and every other cycle where it was.
TickNeverWaits ==
    [][/\ (running /\ drawPc = "idle" /\ (Due => Len(cycles) < MaxCycles))
           => ENABLED Tick
       /\ Len(cycles') > Len(cycles)
           => /\ Len(cycles') = Len(cycles) + 1
              /\ cycles'[Len(cycles')].pc = "screenshot"
              /\ ~cycles'[Len(cycles')].called
              /\ cycles'[Len(cycles')].failed = "none"
              /\ \A c \in Started : cycles'[c] = cycles[c]
              /\ running' = running]_vars

\* C3 witness: a tick has launched a cycle while an earlier cycle is still
\* waiting for the translator.
TickWhileTranslating ==
    \E c1 \in Started, c2 \in Started :
        /\ c1 < c2
        /\ cycles[c1].pc = "translate"
        /\ cycles[c2].pc = "screenshot"

\* C5: two consecutive cycles that extract the same non-empty text call the
\* translator exactly once in total: one of them calls it, the other is a
\* cache hit.
ExactMatchTranslatesOnce ==
    \A c \in Started :
        (/\ c + 1 \in Started
         /\ cycles[c].pc = "done"
         /\ cycles[c + 1].pc = "done"
         /\ cycles[c].text # EmptyString
         /\ cycles[c + 1].text = cycles[c].text)
        => (cycles[c].called # cycles[c + 1].called)

\* C6: a cycle that extracts a non-empty text equal to the cache key
\* a.lastText leaves, when it completes, the translation cached for that text
\* on display, and does not call the translator; stated for a cycle that runs
\* with no other cycle in flight, after any earlier cycles.
CacheHitShowsCachedTranslation ==
    [][\A c \in CycleIds :
          (/\ c \in Started
           /\ InFlight = {c}
           /\ cycles[c].pc = "compare"
           /\ cycles[c].text # EmptyString
           /\ cycles[c].text = lastText
           /\ cycles'[c].pc = "done")
          => (subs' = cached /\ ~cycles'[c].called)]_vars

\* C7: when a cycle completes with an empty extracted text, a.subs is empty
\* right after it, and that cycle did not call the translator.
EmptyExtractionClears ==
    [][\A c \in CycleIds :
          (/\ c \in Started
           /\ cycles[c].pc # "done"
           /\ cycles'[c].pc = "done"
           /\ cycles[c].text = EmptyString)
          => (subs' = EmptyString /\ ~cycles'[c].called)]_vars

\* C7 witness: every cycle has returned, one of them published a non-empty
\* translation, a later one extracted the empty text, and the overlay is
\* empty: it was cleared after the publish.
ClearedAfterPublish ==
    /\ InFlight = {}
    /\ subs = EmptyString
    /\ cached # EmptyString
    /\ \E c1 \in Started, c2 \in Started :
           /\ c1 < c2
           /\ cycles[c1].pc = "done" /\ cycles[c1].called
           /\ cycles[c2].pc = "done" /\ cycles[c2].text = EmptyString

(***************************************************************************)
(* Similarity of two texts: the edit distance (one row of the table at a   *)
(* time) is at most a tenth of the longer length.                          *)
(***************************************************************************)
Min(a, b) == IF a <= b THEN a ELSE b

Max(a, b) == IF a >= b THEN a ELSE b

RECURSIVE NextRow(_, _, _, _)
NextRow(prev, x, b, row) ==
    IF Len(row) = Len(b) + 1 THEN row
    ELSE LET j == Len(row)
             cost == IF x = b[j] THEN 0 ELSE 1
         IN NextRow(prev, x, b,
                Append(row, Min(Min(prev[j + 1] + 1, row[j] + 1), prev[j] + cost)))

RECURSIVE LastRow(_, _, _)
LastRow(a, b, prev) ==
    IF a = <<>> THEN prev
    ELSE LastRow(Tail(a), b, NextRow(prev, Head(a), b, <<prev[1] + 1>>))

EditDistance(a, b) == LastRow(a, b, [j \in 1..(Len(b) + 1) |-> j - 1])[Len(b) + 1]

Similar(a, b) == EditDistance(a, b) * 10 <= Max(Len(a), Len(b))

\* C8: a cycle that extracts a text b similar to the text a translated last
\* (the cache key) does not call the translator and keeps a's translation on
\* display: its comparison with a.lastText returns.
FuzzyMatchIsCacheHit ==
    [][\A c \in CycleIds :
          (/\ c \in Started
           /\ cycles[c].pc = "compare"
           /\ cycles'[c].pc # "compare"
           /\ cycles[c].text # EmptyString
           /\ lastText # EmptyString
           /\ Similar(lastText, cycles[c].text))
          => (cycles'[c].pc = "done" /\ subs' = subs)]_vars

\* C9: when the recognition or the translator call of a cycle fails, a.subs
\* and a.lastText are what they were when the cycle started, and the failure
\* comes back as an error value: the process goes on.
FailureKeepsStateAndReturnsError ==
    \A c \in Started :
        cycles[c].failed \in {"recognition", "translation"}
        => /\ running
           /\ subs = cycles[c].subs0
           /\ lastText = cycles[c].lastText0

\* C14: a render tick starts a cycle if and only if now >= lastUpdate +
\* refreshRate, a tick at exactly lastUpdate + refreshRate included; the tick
\* that starts one sets lastUpdate to the clock, and a tick that is not due
\* leaves lastUpdate alone and starts nothing.  A tick is told from the other
\* steps by the window it drags.
DueAtOrAfterInterval ==
    [][/\ Len(cycles') > Len(cycles)
           => (now >= lastUpdate + refreshRate /\ lastUpdate' = now')
       /\ windowPosition' # windowPosition
           => /\ now >= lastUpdate + refreshRate <=> Len(cycles') > Len(cycles)
              /\ Len(cycles') = Len(cycles) => lastUpdate' = lastUpdate]_vars

(***************************************************************************)
(* Claims about the recognition filter.                                    *)
(***************************************************************************)
RECURSIVE Concat(_)
Concat(seqs) == IF seqs = <<>> THEN <<>> ELSE Head(seqs) \o Concat(Tail(seqs))

\* The words of a recognition result in document order.
AllWords(R) ==
    Concat([p \in DOMAIN R.Pages |->
        Concat([b \in DOMAIN R.Pages[p].Blocks |->
            Concat([q \in DOMAIN R.Pages[p].Blocks[b].Paragraphs |->
                R.Pages[p].Blocks[b].Paragraphs[q].Words])])])

AtLeast(t, word) == word.Confidence >= t

WordText(word) == Concat([k \in DOMAIN word.Symbols |-> word.Symbols[k].Text])

ConfidentText(R, t) ==
    LET kept == SelectSeq(AllWords(R), LAMBDA word : AtLeast(t, word))
    IN Concat([i \in DOMAIN kept |-> WordText(kept[i])])

\* C10: filterTextByConfidence(R, t) is the concatenation, in document order
\* and with no separator, of the symbol texts of exactly the words whose
\* confidence is at least t.
FilterKeepsConfidentWords ==
    result.fn = "filterTextByConfidence"
    => result.text = ConfidentText(call.annotation, call.threshold)

\* C10 witness: words of confidence 0.95, 0.40 and 0.99 filtered with
\* threshold 0.6 give the first and the third word.
FilterScenarioA ==
    /\ result.fn = "filterTextByConfidence"
    /\ call.threshold = 60
    /\ LET words == AllWords(call.annotation)
       IN /\ Len(words) = 3
          /\ words[1].Confidence = 95
          /\ words[2].Confidence = 40
          /\ words[3].Confidence = 99
    /\ result.text = <<"a", "b", "d">>

\* The symbols of a recognition result in document order.
AllSymbols(R) ==
    LET words == AllWords(R)
    IN Concat([i \in DOMAIN words |-> words[i].Symbols])

\* The characters of the symbols whose own confidence is below t, and of
\* those whose confidence is at least t.
CharsBelow(R, t) ==
    LET symbols == AllSymbols(R)
    IN UNION {{symbols[i].Text[k] : k \in 1..Len(symbols[i].Text)} :
                 i \in {j \in DOMAIN symbols : symbols[j].Confidence < t}}

CharsAtLeast(R, t) ==
    LET symbols == AllSymbols(R)
    IN UNION {{symbols[i].Text[k] : k \in 1..Len(symbols[i].Text)} :
                 i \in {j \in DOMAIN symbols : symbols[j].Confidence >= t}}

\* C11: no symbol whose own confidence is below the threshold appears in the
\* extracted text, whatever the confidence of its word: every character of the
\* extracted text is the text of some symbol of confidence at least t.
NoLowConfidenceSymbol ==
    result.fn = "filterTextByConfidence"
    => \A i \in 1..Len(result.text) :
           result.text[i] \in CharsBelow(call.annotation, call.threshold)
           => result.text[i] \in CharsAtLeast(call.annotation, call.threshold)

\* C12: a confidence threshold outside [0.0, 1.0] is never used for
\* filtering: no text comes back for it.
OutOfRangeThresholdRejected ==
    call.fn \in {"filterTextByConfidence", "annotate"}
    => (call.threshold \notin 0..100 => result.fn = "none")

NoWordPasses(R, t) == SelectSeq(AllWords(R), LAMBDA word : AtLeast(t, word)) = <<>>

\* C13: the filter returns the empty string, without failing, when no word
\* passes the threshold (a result with no pages, no blocks, no paragraphs or
\* no words included) and when the recognizer returned no result at all.
EmptyOrAbsentResultGivesEmptyText ==
    /\ (result.fn = "filterTextByConfidence"
         /\ NoWordPasses(call.annotation, call.threshold))
        => result.text = EmptyString
    /\ (result.fn = "annotate"
         /\ \/ call.reply.kind = "nil"
            \/ /\ call.reply.kind = "annotation"
               /\ NoWordPasses(call.reply.annotation, call.threshold))
        => (result.text = EmptyString /\ ~result.err)

\* C13 witness: annotate has returned for a nil annotation.
AnnotatedNilAnnotation ==
    /\ result.fn = "annotate"
    /\ call.reply.kind = "nil"
    /\ result.text = EmptyString
    /\ ~result.err

(***************************************************************************)
(* Claims about the banner layout.                                         *)
(***************************************************************************)
\* The lines of a wrapped text.
RECURSIVE LinesFrom(_, _, _)
LinesFrom(s, line, lines) ==
    IF s = <<>> THEN Append(lines, line)
    ELSE IF Head(s) = "\n" THEN LinesFrom(Tail(s), <<>>, Append(lines, line))
    ELSE LinesFrom(Tail(s), Append(line, Head(s)), lines)

Lines(s) == LinesFrom(s, <<>>, <<>>)

MeasuredWidth(s) == Dx(BoundString(s))

\* C15: when no word of the subtitle is wider than the window on its own, no
\* line of the wrapped subtitle measures more than the width of the window.
WrappedLinesFit ==
    (/\ result.fn = "Draw"
     /\ result.drawn
     /\ \A k \in DOMAIN Fields(call.subs) :
            MeasuredWidth(Fields(call.subs)[k]) <= call.width)
    => \A j \in DOMAIN Lines(result.subtitles) :
           MeasuredWidth(Lines(result.subtitles)[j]) <= call.width

\* C15 witness: a subtitle of words that fit was wrapped into several lines,
\* the longest of them exactly as wide as the window.
WrappedIntoFittingLines ==
    /\ result.fn = "Draw"
    /\ result.drawn
    /\ \A k \in DOMAIN Fields(call.subs) :
           MeasuredWidth(Fields(call.subs)[k]) <= call.width
    /\ Len(Lines(result.subtitles)) >= 2
    /\ \E j \in DOMAIN Lines(result.subtitles) :
           MeasuredWidth(Lines(result.subtitles)[j]) = call.width

\* The words of a line joined by single spaces.
RECURSIVE Join(_)
Join(words) ==
    IF words = <<>> THEN <<>>
    ELSE IF Len(words) = 1 THEN Head(words)
    ELSE Head(words) \o <<" ">> \o Join(Tail(words))

\* The wrapped text as lines of words.
LineWords(s) == [j \in DOMAIN Lines(s) |-> Fields(Lines(s)[j])]

\* The wrap is greedy: within a line, every word after the first fits when it
\* is added to the words before it; the first word of a line after the first
\* did not fit when added to the line before it.
Greedy(lines, width) ==
    \A j \in DOMAIN lines :
        /\ \A p \in 2..Len(lines[j]) :
               MeasuredWidth(Join(SubSeq(lines[j], 1, p))) <= width
        /\ (j > 1 /\ lines[j] # <<>>)
           => MeasuredWidth(Join(Append(lines[j - 1], lines[j][1]))) > width

\* Five words, each measuring 100.
FiveWordsOfWidth100(s) ==
    /\ Len(Fields(s)) = 5
    /\ \A k \in 1..5 : MeasuredWidth(Fields(s)[k]) = 100

\* C16, as stated: the wrap is greedy, and with width 400 five words of
\* width 100 are laid out with the first four on the first line and the fifth
\* on the second.
GreedyFourOfFiveAt400 ==
    (result.fn = "Draw" /\ result.drawn)
    => /\ Greedy(LineWords(result.subtitles), call.width)
       /\ (call.width = 400 /\ FiveWordsOfWidth100(call.subs))
          => (/\ Len(LineWords(result.subtitles)) = 2
              /\ Len(LineWords(result.subtitles)[1]) = 4
              /\ Len(LineWords(result.subtitles)[2]) = 1)

\* C16, amended: the wrap is greedy, the spaces between the words of a line
\* counting in its measured width; with the space 20 wide and five words of
\* width 100, width 400 takes three words on the first line and two on the
\* second, and the first four words share the first line at width 460.
GreedyCountingSpaces ==
    (result.fn = "Draw" /\ result.drawn)
    => /\ Greedy(LineWords(result.subtitles), call.width)
       /\ (call.width = 400 /\ FiveWordsOfWidth100(call.subs))
          => (/\ Len(LineWords(result.subtitles)) = 2
              /\ Len(LineWords(result.subtitles)[1]) = 3
              /\ Len(LineWords(result.subtitles)[2]) = 2)
       /\ (call.width = 460 /\ FiveWordsOfWidth100(call.subs))
          => (/\ Len(LineWords(result.subtitles)) = 2
              /\ Len(LineWords(result.subtitles)[1]) = 4
              /\ Len(LineWords(result.subtitles)[2]) = 1)

\* C16 witness: five words of width 100 were wrapped at width 460, where
\* four of them with their three spaces fit exactly.
FiveWordsWrappedAt460 ==
    /\ result.fn = "Draw"
    /\ result.drawn
    /\ call.width = 460
    /\ FiveWordsOfWidth100(call.subs)
    /\ Len(LineWords(result.subtitles)[1]) = 4

\* C17: the block is placed at (width - blockWidth) div 2 when it is narrower
\* than the window and at 0 otherwise: x is never negative, and a narrower
\* block lies inside the window with margins that differ by at most 1.
BlockCentredOrLeftAligned ==
    (result.fn = "Draw" /\ result.drawn)
    => /\ result.x = IF result.boxSizeX < call.width
                     THEN (call.width - result.boxSizeX) \div 2
                     ELSE 0
       /\ result.x >= 0
       /\ result.boxSizeX < call.width
          => LET right == call.width - (result.x + result.boxSizeX)
             IN /\ right >= 0
                /\ right - result.x \in {0, 1}

\* C17 witness: a block narrower than the window by an odd number was placed,
\* and a block wider than the window is a reachable case too.
BlockPlacedWithOddMargin ==
    /\ result.fn = "Draw"
    /\ result.drawn
    /\ result.boxSizeX < call.width
    /\ (call.width - result.boxSizeX) % 2 = 1
    /\ result.x > 0

(***************************************************************************)
(* Claims about the overlay window.                                        *)
(***************************************************************************)
\* C18: on a tick with the primary button held the window moves by what the
\* pointer moved since the tick before (not at all when the pointer rests,
\* the first tick of a press included); on a tick with the button not held
\* the window stays.
DragFollowsPointerDelta ==
    (call.fn = "Update" /\ result.fn = "Update")
    => IF call.pressed
       THEN windowPosition =
                <<result.from[1] + (call.pointer[1] - call.previous[1]),
                  result.from[2] + (call.pointer[2] - call.previous[2])>>
       ELSE windowPosition = result.from

(***************************************************************************)
(* Claims about the start of the program.                                  *)
(***************************************************************************)
\* A colour string is an RGB colour code: # and six hexadecimal digits.
WellFormedColor(s) == Len(s) = 7 /\ s[1] = "#" /\ \A i \in 2..7 : IsHex(s[i])

ConfigurationError(c) ==
    \/ ~WellFormedColor(c.fontColor)
    \/ ~WellFormedColor(c.backgroundColor)
    \/ ParseDuration(c.refreshRate).err
    \/ c.api \notin {"google", "deepl"}

\* C19: with a configuration whose font colour or background colour is
\* malformed, whose refresh-rate is no parseable duration or whose translator
\* api is unsupported, the render loop is never entered and no cycle is ever
\* started.
ConfigurationErrorStopsBeforeLoop ==
    (result.fn = "main" /\ result.read = "ok" /\ ConfigurationError(result.config))
    => (result.pc # "loop" /\ cycles = <<>>)

\* C20: when no configuration file is found, main creates no client and does
\* not enter the render loop, and when it returns the default configuration
\* file is in the folder the program was started in; after any other read
\* error the process has exited fatally and no file was written.
MissingConfigurationWritesDefaultHere ==
    result.fn = "main"
    => /\ result.read = "notFound"
          => /\ ~result.visionClient /\ ~result.translator
             /\ result.pc # "loop"
             /\ result.exit = "return" => call.cwd \in result.files
       /\ result.read = "error"
          => (result.exit = "fatal" /\ result.files = {})

(***************************************************************************)
(* Claims about the overlay mode, the cycle's stages and its writes.       *)
(***************************************************************************)
ModeSteps == {<<"Off", "Banner">>, <<"Banner", "Inplace">>, <<"Inplace", "Off">>}

\* C21: switch mode moves Off to Banner, Banner to Inplace and Inplace to
\* Off, three consecutive switch mode actions return to the mode they started
\* from, and the mode is always one of Off, Banner and Inplace.
SwitchModeCyclesThreeModes ==
    result.fn = "overlay"
    => LET trail == result.trail
           n == Len(trail) IN
       /\ result.mode \in Modes
       /\ trail[n] = result.mode
       /\ \A k \in 1..(n - 1) : <<trail[k], trail[k + 1]>> \in ModeSteps
       /\ n = TrailLen => trail[n] = trail[n - 3]

\* C21 witness: from Off, three switch mode actions in a row are back at Off.
ThreeSwitchesFromOff ==
    /\ result.fn = "overlay"
    /\ result.trail = <<"Off", "Banner", "Inplace", "Off">>

\* The order of a goroutine's statements.
StageSteps ==
    {<<"screenshot", "debug">>, <<"screenshot", "annotate">>,
     <<"debug", "annotate">>, <<"annotate", "compare">>,
     <<"compare", "done">>, <<"compare", "clear">>, <<"compare", "translate">>,
     <<"clear", "done">>, <<"translate", "setLastText">>,
     <<"setLastText", "setSubs">>, <<"setSubs", "done">>,
     <<"screenshot", "fatal">>, <<"debug", "fatal">>, <<"annotate", "fatal">>,
     <<"translate", "fatal">>}

\* C22: the stages of a cycle occur in the order capture, recognition and
\* filter, translation, publish; the translator is invoked only after the
\* capture and the recognition of that cycle succeeded, and only with a
\* non-empty text that differs from the lastText the cycle read.
StagesInOrder ==
    [][\A c \in CycleIds :
          (c \in Started /\ cycles'[c] # cycles[c])
          => /\ <<cycles[c].pc, cycles'[c].pc>> \in StageSteps
             /\ cycles'[c].pc = "translate"
                => /\ cycles[c].pc = "compare"
                   /\ cycles[c].failed = "none"
                   /\ cycles[c].text # EmptyString
                   /\ cycles[c].text # lastText
             /\ (cycles'[c].called /\ ~cycles[c].called)
                => /\ cycles[c].pc = "translate"
                   /\ cycles[c].text # EmptyString
             /\ cycles'[c].pc \in {"setLastText", "setSubs"} => cycles'[c].called
             /\ (lastText' # lastText \/ (subs' # subs /\ subs' # EmptyString))
                => cycles[c].called]_vars

\* C22 witness: a cycle has called the translator with the text it extracted.
TranslatorCalledWithExtractedText ==
    \E c \in Started :
        /\ cycles[c].pc = "setLastText"
        /\ cycles[c].called
        /\ cycles[c].text # EmptyString
        /\ cycles[c].text # cycles[c].lastText0

\* C23: whenever no cycle is between its write of lastText and its write of
\* subs, subs is empty or is the translation that was returned for the
\* current lastText, however the cycles overlap.
SubtitlePairedWithCacheKey ==
    (\A c \in Started : cycles[c].pc # "setSubs")
    => (subs = EmptyString \/ subs = cached)

\* C24: the subtitle on display once all cycles have completed is the result
\* of the cycle started last: a cycle never writes subs after a cycle that
\* was started later than it has published its translation and returned.
LatestCycleWins ==
    [][\A c \in CycleIds :
          (/\ c \in Started
           /\ cycles[c].pc \in {"clear", "setSubs"}
           /\ cycles'[c].pc = "done")
          => ~\E later \in Started :
                 /\ later > c
                 /\ cycles[later].pc = "done"
                 /\ cycles[later].called]_vars

\* C25: a cycle whose extracted text equals lastText returns at the
\* comparison: it calls no translator, publishes nothing, and none of its
\* steps has changed subs or lastText.
CacheHitIsNoOp ==
    [][\A c \in CycleIds :
          (c \in Started /\ cycles'[c] # cycles[c])
          => /\ cycles[c].pc \in {"screenshot", "debug", "annotate", "compare"}
                => (subs' = subs /\ lastText' = lastText)
             /\ (cycles[c].pc = "compare" /\ cycles[c].text = lastText)
                => /\ cycles'[c].pc = "done"
                   /\ ~cycles'[c].called
                   /\ cycles'[c].text = cycles[c].text]_vars

\* C25 witness: a cycle has returned at the comparison with the text that an
\* earlier cycle had translated.
ReturnedAtCacheHit ==
    \E c \in Started :
        /\ cycles[c].pc = "done"
        /\ ~cycles[c].called
        /\ cycles[c].text # EmptyString
        /\ cycles[c].text = lastText
        /\ subs = cached

\* C26: no step of a cycle changes the window position, the decoration of
\* the window, the font colour, the background colour, lastUpdate or the
\* configured values: of the App's fields a cycle writes lastText and subs
\* only.
CycleLeavesWindowAndSchedule ==
    [][(\E c \in CycleIds : c \in Started /\ cycles'[c] # cycles[c])
       => /\ windowPosition' = windowPosition
          /\ result' = result
          /\ lastUpdate' = lastUpdate
          /\ config' = config
          /\ render' = render]_vars

\* C26 witness: a cycle has published while the window had been given back
\* its decoration by a second press of T.
PublishedInToggledWindow ==
    /\ result.fn = "window"
    /\ call.keyT
    /\ result.decorated
    /\ subs # EmptyString
    /\ \E c \in Started : cycles[c].pc = "done" /\ cycles[c].called

\* C27: the render tick never writes the subtitle or the cache key: a step
\* that changes subs or lastText is the step of a cycle that clears or
\* publishes, and is no step of Update or of Draw.
OnlyCyclesWriteSubtitle ==
    [][(subs' # subs \/ lastText' # lastText)
       => /\ \E c \in Started :
                 /\ cycles[c].pc \in {"clear", "setLastText", "setSubs"}
                 /\ cycles'[c].pc # cycles[c].pc
          /\ Len(cycles') = Len(cycles)
          /\ windowPosition' = windowPosition
          /\ lastUpdate' = lastUpdate
          /\ render' = render]_vars

\* C27 witness: Update has dragged the window and Draw has drawn the
\* subtitle that a cycle published, and the subtitle is still there.
DrawnAndDraggedWithSubtitle ==
    /\ subs # EmptyString
    /\ lastText # EmptyString
    /\ frame = [bound |-> subs, text |-> subs]
    /\ drawPc = "idle"
    /\ windowPosition # <<0, 0>>

\* A render tick that starts a cycle.
StartCycle ==
    \E d \in 0..1 :
        /\ Update(FALSE, <<0, 0>>, d)
        /\ Len(cycles') = Len(cycles) + 1

\* C28: as long as ticks occur and time advances, every cycle start is
\* followed by another, also after a cycle that failed or extracted nothing:
\* whenever a cycle has been started and the refresh interval has elapsed
\* again, the tick that comes next starts a cycle.
DueTickStartsNextCycle ==
    (/\ cycles # <<>>
     /\ Due
     /\ drawPc = "idle"
     /\ Len(cycles) < MaxCycles)
    => ENABLED StartCycle

\* C29: every started cycle eventually terminates, by publishing, by a no-op
\* or as a failure, also when an external call never returns: while the
\* process lives no cycle stays in a capture, recognition or translation
\* call for ever.
EveryCycleTerminates ==
    \A c \in CycleIds :
        (c \in Started)
        ~> (~running \/ (c \in Started /\ cycles[c].pc \in {"done", "fatal"}))

\* C30: for a request that fails with no response, DeepL.Translate returns
\* ("", err) to its caller and does not crash on the missing response.
TransportFailureReturnsError ==
    (result.fn = "DeepL.Translate" /\ ~call.reply.resp)
    => /\ result.outcome = "return"
       /\ result.text = EmptyString
       /\ result.err

(***************************************************************************)
(* Claims about empty translations, the first cycle, the debug file, the   *)
(* decoration key, the colours and the threshold.                          *)
(***************************************************************************)

\* C31: a cycle whose translator call succeeded with no translation records
\* its text as lastText and publishes the empty subtitle, and while that text
\* is lastText a cycle that extracted the same text returns without calling
\* the translator.
EmptyTranslationIsCached ==
    [][\A c \in CycleIds :
          (c \in Started /\ cycles'[c] # cycles[c])
          => /\ (cycles[c].pc = "setLastText" /\ cycles[c].translation = EmptyString)
                => (lastText' = cycles[c].text /\ cycles'[c].pc = "setSubs")
             /\ (cycles[c].pc = "setSubs" /\ cycles[c].translation = EmptyString)
                => (subs' = EmptyString /\ lastText' = lastText
                    /\ cycles'[c].pc = "done")
             /\ (/\ cycles[c].pc = "compare"
                 /\ lastText # EmptyString
                 /\ cached = EmptyString
                 /\ cycles[c].text = lastText)
                => (cycles'[c].pc = "done" /\ ~cycles'[c].called)]_vars

\* C31 witness: the text of an empty translation is lastText, the subtitle is
\* empty, and a later cycle with the same text has returned without a call.
SameTextAfterEmptyTranslation ==
    /\ lastText # EmptyString
    /\ cached = EmptyString
    /\ subs = EmptyString
    /\ \E c \in Started, later \in Started :
           /\ c < later
           /\ cycles[c].pc = "done" /\ cycles[c].called
           /\ cycles[c].text = lastText
           /\ cycles[later].pc = "done" /\ ~cycles[later].called
           /\ cycles[later].text = lastText

\* C32: a non-empty subtitle implies a non-empty cache key, however the
\* cycles interleave: lastText is written before subs and is never reset.
SubtitleHasCacheKey ==
    /\ subs # EmptyString => lastText # EmptyString
    /\ \A c \in Started :
           cycles[c].pc = "setSubs" => lastText # EmptyString

\* C32 witness: a subtitle is on display while another cycle stands between
\* its write of lastText and its write of subs.
SubtitleWhileAnotherPublishes ==
    /\ subs # EmptyString
    /\ \E c \in Started : cycles[c].pc = "setSubs"

\* C33: until a cycle has been started the refresh is due, lastUpdate being
\* the zero time, so the first render tick starts a cycle without waiting
\* one interval; every later start is stamped more than refreshRate after
\* the start before it.
FirstTickStartsAndStartsAreSpaced ==
    [][/\ cycles = <<>>
          => /\ lastUpdate = ZeroTime
             /\ Due
             /\ (windowPosition' # windowPosition \/ lastUpdate' # lastUpdate)
                => (Len(cycles') = 1 /\ lastUpdate' >= now)
       /\ Len(cycles') > Len(cycles)
          => /\ Len(cycles') = Len(cycles) + 1
             /\ now > lastUpdate + refreshRate
             /\ lastUpdate' > lastUpdate + refreshRate]_vars

\* C33 witness: a second cycle has been started at the earliest moment the
\* due check allows after a first one started at start-up.
SecondStartAfterInterval ==
    /\ Len(cycles) = 2
    /\ lastUpdate = StartTime + refreshRate + 1

\* C34: the words read from the wrapped subtitle, line by line, are the
\* words of the subtitle, in the same order: none dropped, duplicated, split
\* or reordered.
WrapPreservesWords ==
    (result.fn = "Draw" /\ result.drawn)
    => Concat(LineWords(result.subtitles)) = Fields(call.subs)

\* C34 witness: a subtitle of several different words was wrapped into
\* several lines.
DifferentWordsWrapped ==
    /\ result.fn = "Draw"
    /\ result.drawn
    /\ Len(Fields(call.subs)) >= 3
    /\ Fields(call.subs)[1] # Fields(call.subs)[2]
    /\ Len(Lines(result.subtitles)) >= 2

\* C35: for a non-empty subtitle and any width, also one smaller than a
\* word, every line of the wrapped subtitle holds at least one word, and the
\* wrapped subtitle does not begin with a line break.  (Stated for the
\* subtitles that hold a word; a subtitle of spaces is wrapped into nothing.)
NoEmptyLine ==
    (result.fn = "Draw" /\ result.drawn /\ Fields(call.subs) # <<>>)
    => /\ \A j \in DOMAIN LineWords(result.subtitles) :
              LineWords(result.subtitles)[j] # <<>>
       /\ Head(result.subtitles) # "\n"

\* C36: in debug mode a cycle whose capture succeeded saves its frame before
\* the recognition, under a file name of its own: no two cycles write the
\* same file name, whatever ticks stamp lastUpdate in between.
DebugFileNamesAreUnique ==
    /\ \A c \in Started :
           (debug /\ cycles[c].pc \in {"compare", "clear", "translate",
                                       "setLastText", "setSubs"})
           => cycles[c].file # ZeroTime
    /\ \A c \in Started, other \in Started :
           (c # other /\ cycles[c].file # ZeroTime /\ cycles[other].file # ZeroTime)
           => cycles[c].file # cycles[other].file

\* C37: a tick on which T has just been pressed flips the decoration of the
\* window, and no other tick changes it, so after two presses the window is
\* decorated as it was at the start; a tick changes neither subs nor
\* lastText, and with or without the key it runs the due check: it stamps
\* lastUpdate and starts a cycle exactly when the refresh is due.
ToggleFlipsAndTickGoesOn ==
    [][/\ call.presses = 0 => result.decorated
       /\ call.presses = 1 => ~result.decorated
       /\ (call' # call \/ result' # result \/ lastUpdate' # lastUpdate)
          => /\ result'.decorated = (IF call'.keyT THEN ~result.decorated
                                     ELSE result.decorated)
             /\ subs' = subs
             /\ lastText' = lastText
             /\ IF Due
                THEN /\ lastUpdate' >= now
                     /\ Len(cycles') = Len(cycles) + 1
                ELSE /\ lastUpdate' = lastUpdate
                     /\ cycles' = cycles]_vars

\* C37 witness: the tick of the second press of T has given the window its
\* decoration back and has started a cycle.
SecondPressStartsCycle ==
    /\ result.fn = "window"
    /\ call.keyT
    /\ call.presses = 0
    /\ result.decorated
    /\ Len(cycles) = 2
    /\ cycles[2].pc = "screenshot"
    /\ lastUpdate = now

\* C38: the alpha of the font colour is 0xFF; the alpha of the background
\* colour is the configured opacity when that is within 0x00..0xFF, and an
\* opacity outside that range gives no colour with another opacity, taken
\* modulo 256, without an error.
AlphaIsConfiguredOpacity ==
    result.fn = "GetColor"
    => /\ ~result.font.err => result.font.c.A = 255
       /\ (~result.background.err /\ call.opacity \in 0..255)
          => result.background.c.A = call.opacity
       /\ (WellFormedColor(call.backgroundColor) /\ call.opacity \notin 0..255)
          => result.background.err

\* a can be read from b by leaving elements of b out.
RECURSIVE IsSubsequence(_, _)
IsSubsequence(a, b) ==
    IF a = <<>> THEN TRUE
    ELSE IF b = <<>> THEN FALSE
    ELSE IF Head(a) = Head(b) THEN IsSubsequence(Tail(a), Tail(b))
    ELSE IsSubsequence(a, Tail(b))

\* The text of the words of a sequence, in order.
TextOf(words) == Concat([i \in DOMAIN words |-> WordText(words[i])])

\* C39: the filter is monotone in the threshold: what it returns for a
\* threshold is the text of words taken, in order, from the words that make
\* up what it returns for any lower threshold, and with a threshold at or
\* below the lowest confidence of a word it returns the text of every word.
FilterMonotoneInThreshold ==
    result.fn = "filterTextByConfidence"
    => LET R == call.annotation
           t2 == call.threshold
       IN /\ \A t1 \in FilterThresholds :
                 t1 <= t2
                 => LET lower == filterTextByConfidence(R, t1)
                        words == SelectSeq(AllWords(R),
                                           LAMBDA word : AtLeast(t1, word))
                    IN /\ lower = TextOf(words)
                       /\ result.text =
                              TextOf(SelectSeq(words,
                                               LAMBDA word : AtLeast(t2, word)))
                       /\ IsSubsequence(result.text, lower)
          /\ (\A i \in DOMAIN AllWords(R) : AllWords(R)[i].Confidence >= t2)
             => result.text = TextOf(AllWords(R))

\* C39 witness: a result filtered with threshold 0.99 keeps a word, and with
\* the thresholds 0.6 and below 0 the filter returns more and more of it.
LessTextAtHigherThreshold ==
    /\ result.fn = "filterTextByConfidence"
    /\ call.threshold = 99
    /\ result.text # EmptyString
    /\ Len(result.text) < Len(filterTextByConfidence(call.annotation, 60))
    /\ Len(filterTextByConfidence(call.annotation, 60))
           < Len(filterTextByConfidence(call.annotation, -10))

====
